---- MODULE Spec2Model ----
(***************************************************************************)
(* State-machine model of the WordPress Enterprise installer CLI           *)
(* (src/wordpress.py).  One behaviour of the model is one invocation of    *)
(* one command: Init chooses the command, its command-line options, the    *)
(* loaded configuration mapping and nothing else; every later choice (an   *)
(* operator's answer to a prompt, the outcome of a file-system call) is    *)
(* drawn by the action that asks for it.                                   *)
(*                                                                         *)
(* pc is the position in the handler, named after the source line the      *)
(* next action starts at.  visited is the list of workflow phases the      *)
(* run has gone through, named with the phase labels of the Workflow       *)
(* Definition Table; the comment at each action gives the progress         *)
(* indicator text the code shows for the phase.                            *)
(*                                                                         *)
(* load_config is modelled for the documents it is meant for: no file      *)
(* (the empty mapping) or a file holding a mapping.  File-system calls     *)
(* may raise in support_bundle, whose staging directory outlives them;     *)
(* the two placeholder files of the dry run are taken to be written.       *)
(* latest_version stands for the answer of the version source that         *)
(* check_for_updates simulates with a literal.                             *)
(***************************************************************************)
EXTENDS Integers, Sequences, FiniteSets, TLC

VARIABLES
    command,            \* the click command that was invoked
    target,             \* --target
    dry_run,            \* --dry-run
    airgap_bundle,      \* --airgap-bundle
    license_path,       \* --license
    key_file,           \* --key-file
    cert_file,          \* --cert-file
    manager_password,   \* --manager-password, reassigned by the prompt loop
    yes,                \* --yes
    version,            \* --version, reassigned by update
    requested,          \* --version as it was given
    latest_version,     \* what the version source answers in check_for_updates
    config,             \* result of load_config()
    pc,                 \* position in the handler
    attempts,           \* local of install's password loop
    visited,            \* workflow phases gone through, in order
    prompts,            \* prompts presented and the operator's replies, in order
    output,             \* lines echoed that the properties speak about
    writes,             \* files opened for writing and written, in order
    spinners,           \* number of progress indicators started and not stopped
    bundle_dir,         \* support_bundle: does the staging directory exist
    outcome,            \* how the run ended, in the spec's taxonomy
    exit_code           \* process exit status, NoExit while running

flags == <<command, target, dry_run, airgap_bundle, license_path, key_file,
           cert_file, yes, requested, latest_version, config>>
vars == <<command, target, dry_run, airgap_bundle, license_path, key_file,
          cert_file, manager_password, yes, version, requested, latest_version,
          config,
          pc, attempts, visited, prompts, output, writes, spinners,
          bundle_dir, outcome, exit_code>>

----------------------------------------------------------------------------
(* Bounds *)

\* version fields range over 0..MaxField
MaxField == 2

----------------------------------------------------------------------------
(* Values *)

\* Python's None for an option that was not given
None == "None"
NoExit == -1

\* truthiness of an optional string: None and "" are false
Truthy(s) == s # None /\ s # ""

Paths(p) == {None, p}
\* what the operator may type at a masked prompt (click re-asks on empty input)
Typed == {"pw1", "pw2"}
\* --manager-password: absent, empty or a value
GivenPasswords == {None, "", "pw1"}

ConfigKeys == {"push_images", "multi_node"}
\* a configuration mapping sets any subset of the keys
Configs == UNION {[K -> BOOLEAN] : K \in SUBSET ConfigKeys}

ConfigGet_no_default(key, default) == key \in DOMAIN config /\ config[key]
\* config.get(key, default)
ConfigGet(key, default) == IF key \in DOMAIN config THEN config[key] ELSE default

\* a version string: absent, empty, unparsable, or dotted numeric fields
NoVersion == [form |-> "none", release |-> <<>>]
EmptyVersion == [form |-> "empty", release |-> <<>>]
BadVersion == [form |-> "invalid", release |-> <<>>]
Release(r) == [form |-> "release", release |-> r]
Fields == 0..MaxField
Releases == {Release(r) : r \in (UNION {[1..n -> Fields] : n \in 1..3})}

CURRENT_VERSION == Release(<<1, 0, 0>>)


----------------------------------------------------------------------------
(* packaging.version: parse and the ordering of release segments *)

StripZeros_none(r) == r

RECURSIVE StripZeros(_)
\* the comparison key drops the trailing zero fields of a release
StripZeros(r) ==
    IF r = <<>> THEN <<>>
    ELSE IF r[Len(r)] = 0 THEN StripZeros(SubSeq(r, 1, Len(r) - 1))
    ELSE r

RECURSIVE TupleLess(_, _)
\* Python's order on tuples of integers
TupleLess(a, b) ==
    IF b = <<>> THEN FALSE
    ELSE IF a = <<>> THEN TRUE
    ELSE IF Head(a) # Head(b) THEN Head(a) < Head(b)
    ELSE TupleLess(Tail(a), Tail(b))

\* does packaging_version.parse(v) raise
ParseRaises(v) == v.form # "release"
\* the comparison key of packaging_version.parse(v)
Parse(v) == StripZeros(v.release)

VersionGreater(a, b) == TupleLess(Parse(b), Parse(a))
VersionLessEqual(a, b) == ~TupleLess(Parse(b), Parse(a))

check_for_updates_or_equal ==
    IF ParseRaises(latest_version) THEN NoVersion
    ELSE IF ~TupleLess(Parse(latest_version), Parse(CURRENT_VERSION))
         THEN latest_version
    ELSE NoVersion

\* check_for_updates(): the newer version, or None
check_for_updates ==
    IF ParseRaises(latest_version) THEN NoVersion
    ELSE IF VersionGreater(latest_version, CURRENT_VERSION) THEN latest_version
    ELSE NoVersion

----------------------------------------------------------------------------
(* Initial states: one per command line and configuration *)

Targets == {"kubernetes", "linux"}

InitRun ==
    /\ attempts = 0
    /\ visited = <<>>
    /\ prompts = <<>>
    /\ output = <<>>
    /\ writes = <<>>
    /\ spinners = 0
    /\ bundle_dir = FALSE
    /\ outcome = "none"
    /\ exit_code = NoExit

InitInstall ==
    /\ config \in Configs
    /\ command = "install"
    /\ pc = "install_56"
    /\ target \in Targets
    /\ dry_run \in BOOLEAN
    /\ airgap_bundle \in Paths("bundle.airgap")
    /\ license_path = "license.yaml"
    /\ key_file \in Paths("tls.key")
    /\ cert_file \in Paths("tls.crt")
    /\ manager_password \in GivenPasswords
    /\ yes \in BOOLEAN
    /\ version = NoVersion
    /\ latest_version = NoVersion

InitUpgrade ==
    /\ config \in Configs
    /\ command = "upgrade"
    /\ pc = "upgrade_179"
    /\ target \in Targets
    /\ dry_run \in BOOLEAN
    /\ airgap_bundle \in Paths("bundle.airgap")
    /\ license_path \in Paths("license.yaml")
    /\ key_file \in Paths("tls.key")
    /\ cert_file \in Paths("tls.crt")
    /\ manager_password = None
    /\ yes \in BOOLEAN
    /\ version = NoVersion
    /\ latest_version = NoVersion

InitOther(cmd, at) ==
    /\ command = cmd
    /\ pc = at
    /\ target = None
    /\ dry_run = FALSE
    /\ airgap_bundle = None
    /\ license_path = None
    /\ key_file = None
    /\ cert_file = None
    /\ manager_password = None

InitUninstall ==
    /\ config \in Configs
    /\ InitOther("uninstall", "uninstall_290")
    /\ yes = FALSE
    /\ version = NoVersion
    /\ latest_version = NoVersion

InitSupportBundle ==
    /\ config \in Configs
    /\ InitOther("support_bundle", "support_bundle_307")
    /\ yes = FALSE
    /\ version = NoVersion
    /\ latest_version = NoVersion

\* update does not load the configuration
InitUpdate ==
    /\ config = <<>>
    /\ InitOther("update", "update_410")
    /\ yes \in BOOLEAN
    /\ version \in {NoVersion, EmptyVersion, BadVersion} \cup Releases
    /\ latest_version \in {BadVersion} \cup Releases

Init ==
    /\ InitRun
    /\ \/ InitInstall
       \/ InitUpgrade
       \/ InitUninstall
       \/ InitSupportBundle
       \/ InitUpdate
    /\ requested = version

----------------------------------------------------------------------------
(* Building blocks of the handlers *)

\* the handler returns: click ends the process with status 0
ReturnStatus == 0
\* an exception leaves the handler: the interpreter ends with status 1
RaiseStatus == 1

Return(how) ==
    /\ pc' = "done"
    /\ outcome' = how
    /\ exit_code' = ReturnStatus

Raise(how) ==
    /\ pc' = "done"
    /\ outcome' = how
    /\ exit_code' = RaiseStatus

\* an echoed line is a pair: its text and the value it carries
Say(texts) == [i \in 1..Len(texts) |-> <<texts[i], "">>]
Echo(lines) == output' = output \o lines
\* a prompt and what the operator replied
Reply(answer) == IF answer THEN "y" ELSE "n"
Ask(which) == prompts' = prompts \o which

\* one phase shown on a progress indicator: the indicator is started or gets
\* the phase's text, the phase's wait passes, and `running` indicators are
\* left spinning at the next position
Phase(at, step, next, running) ==
    /\ pc = at
    /\ visited' = Append(visited, step)
    /\ pc' = next
    /\ spinners' = running
    /\ UNCHANGED <<flags, manager_password, version, attempts, prompts,
                   output, writes, bundle_dir, outcome, exit_code>>

push_images_and == Truthy(airgap_bundle) /\ ConfigGet("push_images", TRUE)
\* `airgap_bundle or config.get('push_images', True)`
push_images == Truthy(airgap_bundle) \/ ConfigGet("push_images", TRUE)
multi_node_default_true == ConfigGet("multi_node", TRUE)
\* `config.get('multi_node', False)`
multi_node == ConfigGet("multi_node", FALSE)


----------------------------------------------------------------------------
(* install, lines 51-163 *)

self_signed_neither == target = "linux" /\ ~(Truthy(key_file) \/ Truthy(cert_file))

\* `target == 'linux' and not (key_file and cert_file)`
self_signed == target = "linux" /\ ~(Truthy(key_file) /\ Truthy(cert_file))

must_ask_despite_yes(condition) == condition
\* lines 59 and 420, `not yes and not click.confirm(...)`: with --yes the
\* confirmation is not called
must_ask(condition) == condition /\ ~yes

cancelled_on_yes(asked, answer) == asked /\ answer
\* line 59, `not yes and not click.confirm(...)`: asked, and answered no
cancelled(asked, answer) == asked /\ ~answer

password_given == Truthy(manager_password)
\* line 64, `if not manager_password:`
password_missing == ~Truthy(manager_password)

passwords_match_always(password, confirm) == TRUE
\* `manager_password == confirm`
passwords_match(password, confirm) == password = confirm

attempts_left_four(n) == n < 4
\* `attempts < 3`
attempts_left(n) == n < 3

\* lines 56-64: the certificate check, and the confirmation it may ask for
InstallConfirmCertPolicy ==
    /\ command = "install"
    /\ pc = "install_56"
    /\ visited' = Append(visited, "ConfirmCertPolicy")
    /\ \E answer \in BOOLEAN :
        LET asked == must_ask(self_signed)
            warned == IF self_signed THEN <<"self-signed certificate will be used">>
                      ELSE <<>>
        IN  /\ Ask(IF asked
                    THEN << <<"continue with self-signed", Reply(answer)>> >>
                    ELSE <<>>)
            /\ IF cancelled(asked, answer)
               THEN /\ Echo(Say(warned \o <<"Installation cancelled">>))
                    /\ Return("UserAbort")
               ELSE /\ Echo(Say(warned))
                    /\ pc' = IF password_missing THEN "install_67"
                             ELSE "install_78"
                    /\ UNCHANGED <<outcome, exit_code>>
            \* without a prompt there is no answer to choose
            /\ asked \/ answer
    /\ attempts' = 0
    /\ UNCHANGED <<flags, manager_password, version, writes, spinners, bundle_dir>>

\* lines 66-76: one turn of the password loop
InstallPromptPassword ==
    /\ command = "install"
    /\ pc = "install_67"
    /\ attempts_left(attempts)
    /\ \E password \in Typed, confirm \in Typed :
        /\ manager_password' = password
        /\ Ask(<< <<"Set password", password>>, <<"Confirm password", confirm>> >>)
        /\ IF passwords_match(password, confirm)
           THEN /\ pc' = "install_78"
                /\ UNCHANGED <<attempts, output, outcome, exit_code>>
           ELSE /\ attempts' = attempts + 1
                /\ IF attempts_left(attempts + 1)
                   THEN /\ Echo(Say(<<"Passwords do not match">>))
                        /\ pc' = "install_67"
                        /\ UNCHANGED <<outcome, exit_code>>
                   ELSE /\ Echo(Say(<<"Too many failed attempts">>))
                        /\ Return("RetryExhausted")
    /\ UNCHANGED <<flags, version, visited, writes, spinners, bundle_dir>>

InstallAwaitConfiguration_no_dry_run ==
    /\ command = "install"
    /\ Phase("install_78", "AwaitConfiguration",
             IF target = "kubernetes" THEN "install_117" ELSE "install_132", 0)

\* lines 78-89, 'Waiting for configuration'
InstallAwaitConfiguration ==
    /\ command = "install"
    /\ Phase("install_78", "AwaitConfiguration",
             IF target = "kubernetes"
             THEN (IF dry_run THEN "install_90" ELSE "install_117")
             ELSE "install_132", 0)

\* lines 90-97, 'Preparing files'
InstallPrepareFiles ==
    /\ command = "install"
    /\ pc = "install_90"
    /\ visited' = Append(visited, "PrepareArtifacts")
    /\ writes' = writes \o <<"wordpress.tgz", "wordpress.yaml">>
    /\ pc' = "install_98"
    /\ UNCHANGED <<flags, manager_password, version, attempts, prompts, output,
                   spinners, bundle_dir, outcome, exit_code>>

\* the docker lines of the dry run, lines 99-110 and 208-219
Images == <<"wordpress", "wordpress-runner", "wordpress-actions-runner">>
PerImage(verb) == [i \in 1..Len(Images) |-> <<verb, Images[i]>>]
ImagePushInstructions_load_only ==
    IF Truthy(airgap_bundle) THEN << <<"load", airgap_bundle>> >>
    ELSE PerImage("pull") \o PerImage("tag") \o PerImage("push")

ImagePushInstructions ==
    (IF Truthy(airgap_bundle) THEN << <<"load", airgap_bundle>> >>
     ELSE PerImage("pull"))
    \o PerImage("tag") \o PerImage("push")

InstallEmitInstructions_no_return ==
    /\ command = "install"
    /\ pc = "install_98"
    /\ visited' = Append(visited, "EmitInstructions")
    /\ Echo(ImagePushInstructions \o << <<"helm", "install">> >>)
    /\ pc' = "install_117"
    /\ UNCHANGED <<flags, manager_password, version, attempts, prompts, writes,
                   spinners, bundle_dir, outcome, exit_code>>

\* lines 98-116: the instructions, then return
InstallEmitInstructions ==
    /\ command = "install"
    /\ pc = "install_98"
    /\ visited' = Append(visited, "EmitInstructions")
    /\ Echo(ImagePushInstructions \o << <<"helm", "install">> >>)
    /\ Return("DryRunOutput")
    /\ UNCHANGED <<flags, manager_password, version, attempts, prompts, writes,
                   spinners, bundle_dir>>

\* lines 117-120 and 123, 'Waiting for registry info'
InstallAwaitRegistryInfo ==
    /\ command = "install"
    /\ IF push_images
       THEN Phase("install_117", "AwaitRegistryInfo", "install_121", 1)
       ELSE Phase("install_117", "AwaitRegistryInfo", "install_124", 0)

\* lines 121-123, 'Pushing images to registry'
InstallPushImages ==
    /\ command = "install"
    /\ Phase("install_121", "PushImages", "install_124", 0)

\* lines 124-126, 'Validating environment'
InstallValidateEnvironment ==
    /\ command = "install"
    /\ Phase("install_124", "ValidateEnvironment", "install_127", 1)

\* lines 127-131, 'Installing WordPress Enterprise'
InstallApplication ==
    /\ command = "install"
    /\ Phase("install_127", "InstallApplication", "install_161", 0)

\* lines 132-135, 'Waiting for setup info'
InstallAwaitSetupInfo ==
    /\ command = "install"
    /\ Phase("install_132", "AwaitSetupInfo",
             IF push_images THEN "install_136" ELSE "install_138", 1)

\* lines 136-137, 'Pushing images to registry'
InstallHostPushImages ==
    /\ command = "install"
    /\ Phase("install_136", "PushImages", "install_138", 1)

\* lines 138-139, 'Validating host requirements'
InstallValidateHostRequirements ==
    /\ command = "install"
    /\ Phase("install_138", "ValidateHostRequirements", "install_140", 1)

\* lines 140-142 and 145, 'Setting up host'
InstallSetupHost ==
    /\ command = "install"
    /\ IF multi_node
       THEN Phase("install_140", "SetupHost", "install_143", 1)
       ELSE Phase("install_140", "SetupHost", "install_146", 0)

\* lines 143-145, 'Waiting for other hosts'
InstallAwaitOtherHosts ==
    /\ command = "install"
    /\ Phase("install_143", "AwaitOtherHosts", "install_146", 0)

\* lines 146-148, 'Installing storage'
InstallStorage ==
    /\ command = "install"
    /\ Phase("install_146", "InstallStorage", "install_149", 1)

\* lines 149-150, 'Installing registry'
InstallRegistry ==
    /\ command = "install"
    /\ Phase("install_149", "InstallRegistry", "install_151", 1)

\* lines 151-152, 'Preparing disaster recovery'
InstallPrepareDisasterRecovery ==
    /\ command = "install"
    /\ Phase("install_151", "PrepareDisasterRecovery", "install_153", 1)

\* lines 153-154, 'Installing additional components'
InstallAddOns ==
    /\ command = "install"
    /\ Phase("install_153", "InstallAddOns", "install_155", 1)

\* lines 155-156, 'Validating environment'
InstallHostValidateEnvironment ==
    /\ command = "install"
    /\ Phase("install_155", "ValidateEnvironment", "install_157", 1)

\* lines 157-159, 'Installing WordPress Enterprise'
InstallHostApplication ==
    /\ command = "install"
    /\ Phase("install_157", "InstallApplication", "install_161", 0)

\* lines 161-163: the closing summary
InstallSummary ==
    /\ command = "install"
    /\ pc = "install_161"
    /\ Echo(Say(<<"installed successfully", "Admin Console location">>))
    /\ Return("Completed")
    /\ UNCHANGED <<flags, manager_password, version, attempts, visited,
                   prompts, writes, spinners, bundle_dir>>

install ==
    \/ InstallConfirmCertPolicy
    \/ InstallPromptPassword
    \/ InstallAwaitConfiguration
    \/ InstallPrepareFiles
    \/ InstallEmitInstructions
    \/ InstallAwaitRegistryInfo
    \/ InstallPushImages
    \/ InstallValidateEnvironment
    \/ InstallApplication
    \/ InstallAwaitSetupInfo
    \/ InstallHostPushImages
    \/ InstallValidateHostRequirements
    \/ InstallSetupHost
    \/ InstallAwaitOtherHosts
    \/ InstallStorage
    \/ InstallRegistry
    \/ InstallPrepareDisasterRecovery
    \/ InstallAddOns
    \/ InstallHostValidateEnvironment
    \/ InstallHostApplication
    \/ InstallSummary


----------------------------------------------------------------------------
(* upgrade, lines 174-256 *)

airgap_with_license == Truthy(airgap_bundle) /\ Truthy(license_path)
\* `airgap_bundle and not license_path`
airgap_without_license == Truthy(airgap_bundle) /\ ~Truthy(license_path)

\* lines 179-185: the license check
UpgradeValidateAirgapLicense ==
    /\ command = "upgrade"
    /\ pc = "upgrade_179"
    /\ visited' = Append(visited, "ValidateAirgapLicense")
    /\ IF airgap_without_license
       THEN /\ Echo(Say(<<"License file is required for airgap installations">>))
            /\ Return("ValidationError")
       ELSE /\ Echo(IF Truthy(key_file) /\ Truthy(cert_file)
                    THEN Say(<<"Certificate has been updated">>) ELSE <<>>)
            /\ pc' = "upgrade_187"
            /\ UNCHANGED <<outcome, exit_code>>
    /\ UNCHANGED <<flags, manager_password, version, attempts, prompts, writes,
                   spinners, bundle_dir>>

\* lines 187-198, 'Waiting for configuration'
UpgradeAwaitConfiguration ==
    /\ command = "upgrade"
    /\ Phase("upgrade_187", "AwaitConfiguration",
             IF target = "kubernetes"
             THEN (IF dry_run THEN "upgrade_199" ELSE "upgrade_225")
             ELSE "upgrade_240", 0)

\* lines 199-206, 'Preparing files'
UpgradePrepareFiles ==
    /\ command = "upgrade"
    /\ pc = "upgrade_199"
    /\ visited' = Append(visited, "PrepareArtifacts")
    /\ writes' = writes \o <<"wordpress.tgz", "wordpress.yaml">>
    /\ pc' = "upgrade_207"
    /\ UNCHANGED <<flags, manager_password, version, attempts, prompts, output,
                   spinners, bundle_dir, outcome, exit_code>>

\* lines 207-224: the instructions, then return
UpgradeEmitInstructions ==
    /\ command = "upgrade"
    /\ pc = "upgrade_207"
    /\ visited' = Append(visited, "EmitInstructions")
    /\ Echo(ImagePushInstructions \o << <<"helm", "upgrade">> >>)
    /\ Return("DryRunOutput")
    /\ UNCHANGED <<flags, manager_password, version, attempts, prompts, writes,
                   spinners, bundle_dir>>

\* lines 225-228 and 231, 'Waiting for registry info'
UpgradeAwaitRegistryInfo ==
    /\ command = "upgrade"
    /\ IF push_images
       THEN Phase("upgrade_225", "AwaitRegistryInfo", "upgrade_229", 1)
       ELSE Phase("upgrade_225", "AwaitRegistryInfo", "upgrade_232", 0)

\* lines 229-231, 'Pushing images to registry'
UpgradePushImages ==
    /\ command = "upgrade"
    /\ Phase("upgrade_229", "PushImages", "upgrade_232", 0)

\* lines 232-234, 'Validating environment'
UpgradeValidateEnvironment ==
    /\ command = "upgrade"
    /\ Phase("upgrade_232", "ValidateEnvironment", "upgrade_235", 1)

\* lines 235-239, 'Upgrading WordPress Enterprise'
UpgradeApplication ==
    /\ command = "upgrade"
    /\ Phase("upgrade_235", "UpgradeApplication", "upgrade_254", 0)

\* lines 240-243 and 246, 'Waiting for registry info'
UpgradeHostAwaitRegistryInfo ==
    /\ command = "upgrade"
    /\ IF push_images
       THEN Phase("upgrade_240", "AwaitRegistryInfo", "upgrade_244", 1)
       ELSE Phase("upgrade_240", "AwaitRegistryInfo", "upgrade_247", 0)

\* lines 244-246, 'Pushing images to registry'
UpgradeHostPushImages ==
    /\ command = "upgrade"
    /\ Phase("upgrade_244", "PushImages", "upgrade_247", 0)

\* lines 247-249, 'Validating environment'
UpgradeHostValidateEnvironment ==
    /\ command = "upgrade"
    /\ Phase("upgrade_247", "ValidateEnvironment", "upgrade_250", 1)

\* lines 250-252, 'Upgrading WordPress Enterprise'
UpgradeHostApplication ==
    /\ command = "upgrade"
    /\ Phase("upgrade_250", "UpgradeApplication", "upgrade_254", 0)

\* lines 254-256: the closing summary
UpgradeSummary ==
    /\ command = "upgrade"
    /\ pc = "upgrade_254"
    /\ Echo(Say(<<"upgraded successfully", "Admin Console location">>))
    /\ Return("Completed")
    /\ UNCHANGED <<flags, manager_password, version, attempts, visited,
                   prompts, writes, spinners, bundle_dir>>

upgrade ==
    \/ UpgradeValidateAirgapLicense
    \/ UpgradeAwaitConfiguration
    \/ UpgradePrepareFiles
    \/ UpgradeEmitInstructions
    \/ UpgradeAwaitRegistryInfo
    \/ UpgradePushImages
    \/ UpgradeValidateEnvironment
    \/ UpgradeApplication
    \/ UpgradeHostAwaitRegistryInfo
    \/ UpgradeHostPushImages
    \/ UpgradeHostValidateEnvironment
    \/ UpgradeHostApplication
    \/ UpgradeSummary

----------------------------------------------------------------------------
(* uninstall, lines 285-300 *)

\* what the operator may type at a yes/no prompt: y, n or just Enter
TypedAnswers == {"y", "n", ""}
click_confirm_default_yes(typed, default) == typed # "n"
\* click.confirm(..., default=...): Enter alone takes the default
click_confirm(typed, default) == IF typed = "" THEN default ELSE typed = "y"

\* lines 290-293: the confirmation, default no
UninstallConfirm ==
    /\ command = "uninstall"
    /\ pc = "uninstall_290"
    /\ \E typed \in TypedAnswers :
        /\ Ask(<< <<"Are you sure?", typed>> >>)
        /\ IF ~click_confirm(typed, FALSE)
           THEN /\ Echo(Say(<<"Uninstall cancelled">>))
                /\ Return("UserAbort")
           ELSE /\ pc' = "uninstall_295"
                /\ UNCHANGED <<output, outcome, exit_code>>
    /\ UNCHANGED <<flags, manager_password, version, attempts, visited, writes,
                   spinners, bundle_dir>>

\* lines 295-300, 'Uninstalling WordPress Enterprise'
UninstallRun ==
    /\ command = "uninstall"
    /\ pc = "uninstall_295"
    /\ visited' = Append(visited, "Uninstall")
    /\ Echo(Say(<<"You can now run the install command">>))
    /\ Return("Completed")
    /\ UNCHANGED <<flags, manager_password, version, attempts, prompts, writes,
                   spinners, bundle_dir>>

uninstall ==
    \/ UninstallConfirm
    \/ UninstallRun


----------------------------------------------------------------------------
(* support_bundle, lines 303-354 *)

\* lines 306-311, 'Generating support bundle'
SupportBundleStart ==
    /\ command = "support_bundle"
    /\ Phase("support_bundle_307", "GenerateSupportBundle", "support_bundle_316", 1)

\* lines 314-316: os.makedirs; it may raise
SupportBundleMakeDirs ==
    /\ command = "support_bundle"
    /\ pc = "support_bundle_316"
    /\ \E ok \in BOOLEAN :
        IF ok
        THEN /\ bundle_dir' = TRUE
             /\ pc' = "support_bundle_319"
             /\ UNCHANGED <<outcome, exit_code>>
        ELSE /\ Raise("IOError")
             /\ UNCHANGED bundle_dir
    /\ UNCHANGED <<flags, manager_password, version, attempts, visited, prompts,
                   output, writes, spinners>>

\* one `with open(...) as f: f.write(...)`; it may raise
WriteBundleFile(at, file, next) ==
    /\ command = "support_bundle"
    /\ pc = at
    /\ \E ok \in BOOLEAN :
        IF ok
        THEN /\ writes' = Append(writes, file)
             /\ pc' = next
             /\ UNCHANGED <<outcome, exit_code>>
        ELSE /\ Raise("IOError")
             /\ UNCHANGED writes
    /\ UNCHANGED <<flags, manager_password, version, attempts, visited, prompts,
                   output, spinners, bundle_dir>>

\* lines 319-320
SupportBundleWriteLogs ==
    WriteBundleFile("support_bundle_319", "logs.txt", "support_bundle_321")
\* lines 321-322
SupportBundleWriteConfig ==
    WriteBundleFile("support_bundle_321", "config.yaml", "support_bundle_323")
\* lines 323-324
SupportBundleWriteSystemInfo ==
    WriteBundleFile("support_bundle_323", "system-info.txt", "support_bundle_327")

\* lines 327-333: the archive; it may raise
SupportBundlePackage ==
    WriteBundleFile("support_bundle_327", "bundle.tgz", "support_bundle_337")

\* lines 336-337: shutil.rmtree; it may raise
SupportBundleCleanUp ==
    /\ command = "support_bundle"
    /\ pc = "support_bundle_337"
    /\ \E ok \in BOOLEAN :
        IF ok
        THEN /\ bundle_dir' = FALSE
             /\ pc' = "support_bundle_339"
             /\ UNCHANGED <<outcome, exit_code>>
        ELSE /\ Raise("IOError")
             /\ UNCHANGED bundle_dir
    /\ UNCHANGED <<flags, manager_password, version, attempts, visited, prompts,
                   output, writes, spinners>>

\* lines 339-346 and 353-354: report, and offer to send the bundle (default yes)
SupportBundleSaved ==
    /\ command = "support_bundle"
    /\ pc = "support_bundle_339"
    /\ spinners' = 0
    /\ \E answer \in BOOLEAN :
        /\ Ask(<< <<"send this bundle to support?", Reply(answer)>> >>)
        /\ IF answer
           THEN /\ Echo(Say(<<"Support bundle saved">>))
                /\ pc' = "support_bundle_347"
                /\ UNCHANGED <<outcome, exit_code>>
           ELSE /\ Echo(Say(<<"Support bundle saved", "send the bundle later">>))
                /\ Return("Completed")
    /\ UNCHANGED <<flags, manager_password, version, attempts, visited, writes,
                   bundle_dir>>

\* lines 347-352, 'Uploading support bundle'
SupportBundleUpload ==
    /\ command = "support_bundle"
    /\ pc = "support_bundle_347"
    /\ visited' = Append(visited, "UploadSupportBundle")
    /\ Echo(Say(<<"Visit the enterprise portal">>))
    /\ Return("Completed")
    /\ UNCHANGED <<flags, manager_password, version, attempts, prompts, writes,
                   spinners, bundle_dir>>

support_bundle ==
    \/ SupportBundleStart
    \/ SupportBundleMakeDirs
    \/ SupportBundleWriteLogs
    \/ SupportBundleWriteConfig
    \/ SupportBundleWriteSystemInfo
    \/ SupportBundlePackage
    \/ SupportBundleCleanUp
    \/ SupportBundleSaved
    \/ SupportBundleUpload

----------------------------------------------------------------------------
(* update, lines 408-443 *)

\* `if version:`
version_given == version.form \notin {"none", "empty"}

older(v) == TupleLess(Parse(v), Parse(CURRENT_VERSION))
\* `target_version <= packaging_version.parse(CURRENT_VERSION)`
not_newer(v) == VersionLessEqual(v, CURRENT_VERSION)

\* lines 410-422: a requested version
UpdateRequested ==
    /\ command = "update"
    /\ pc = "update_410"
    /\ version_given
    /\ \E answer \in BOOLEAN :
        IF ParseRaises(version)
        THEN /\ answer
             /\ Echo(Say(<<"Invalid version format">>))
             /\ Return("InvalidVersionFormat")
             /\ UNCHANGED prompts
        ELSE LET asked == must_ask(not_newer(version))
                 warned == IF not_newer(version)
                           THEN <<"is not newer than current version">>
                           ELSE <<>>
             IN  /\ asked \/ answer
                 /\ Ask(IF asked THEN << <<"downgrade?", Reply(answer)>> >>
                        ELSE <<>>)
                 /\ IF asked /\ ~answer
                    THEN /\ Echo(Say(warned \o <<"Update cancelled">>))
                         /\ Return("DowngradeNotConfirmed")
                    ELSE /\ Echo(Say(warned))
                         /\ pc' = "update_430"
                         /\ UNCHANGED <<outcome, exit_code>>
    /\ UNCHANGED <<flags, manager_password, version, attempts, visited, writes,
                   spinners, bundle_dir>>

\* lines 423-428: no requested version
UpdateDiscover ==
    /\ command = "update"
    /\ pc = "update_410"
    /\ ~version_given
    /\ IF check_for_updates = NoVersion
       THEN /\ Echo(Say(<<"already running the latest version">>))
            /\ Return("NoUpdateAvailable")
            /\ UNCHANGED version
       ELSE /\ version' = check_for_updates
            /\ pc' = "update_430"
            /\ UNCHANGED <<output, outcome, exit_code>>
    /\ UNCHANGED <<flags, manager_password, attempts, visited, prompts, writes,
                   spinners, bundle_dir>>

\* lines 430-437, 'Downloading new version'
UpdateDownload ==
    /\ command = "update"
    /\ Phase("update_430", "DownloadNewVersion", "update_438", 1)

\* lines 438-443, 'Installing update'
UpdateInstall ==
    /\ command = "update"
    /\ pc = "update_438"
    /\ visited' = Append(visited, "InstallUpdate")
    /\ spinners' = 0
    /\ Echo(Say(<<"CLI has been updated">>))
    /\ Return("Completed")
    /\ UNCHANGED <<flags, manager_password, version, attempts, prompts, writes,
                   bundle_dir>>

update ==
    \/ UpdateRequested
    \/ UpdateDiscover
    \/ UpdateDownload
    \/ UpdateInstall

----------------------------------------------------------------------------
(* cli, lines 35-38 and 459-460: the invoked command runs to its end *)

Next ==
    \/ install
    \/ upgrade
    \/ uninstall
    \/ support_bundle
    \/ update

Spec == Init /\ [][Next]_vars

\* the interpreter keeps executing the handler, and a prompt is answered
FairSpec == Spec /\ WF_vars(Next)


----------------------------------------------------------------------------
(* Vocabulary of the properties *)

Done == pc = "done"

Range(f) == {f[i] : i \in DOMAIN f}
IsPrefix(a, b) == Len(a) <= Len(b) /\ SubSeq(b, 1, Len(a)) = a
Count(f, x) == Cardinality({i \in DOMAIN f : f[i] = x})

\* the steps marked * in the Workflow Definition Table
GateSteps == {"ConfirmCertPolicy", "ValidateAirgapLicense"}
NotGate(step) == step \notin GateSteps
\* the steps of the sequence proper
WorkflowSteps == SelectSeq(visited, NotGate)

\* the steps that provision, as opposed to waiting for the operator's
\* configuration and the two steps of the dry-run branch
RealSteps == {"AwaitRegistryInfo", "AwaitSetupInfo", "PushImages",
              "ValidateHostRequirements", "SetupHost", "AwaitOtherHosts",
              "InstallStorage", "InstallRegistry", "PrepareDisasterRecovery",
              "InstallAddOns", "ValidateEnvironment", "InstallApplication",
              "UpgradeApplication"}

\* the Workflow Definition Table: a row is a list of steps with conditions
Always(name) == [name |-> name, when |-> TRUE]
If(name, condition) == [name |-> name, when |-> condition]
AirgapOrConfigPush ==
    airgap_bundle \notin {None, ""}
    \/ ("push_images" \in DOMAIN config => config["push_images"])
MultiNode == "multi_node" \in DOMAIN config /\ config["multi_node"]

TableRow(cmd, tgt) ==
    IF cmd = "install" /\ tgt = "kubernetes" THEN
        << Always("ConfirmCertPolicy"), Always("AwaitConfiguration"),
           Always("AwaitRegistryInfo"), If("PushImages", AirgapOrConfigPush),
           Always("ValidateEnvironment"), Always("InstallApplication") >>
    ELSE IF cmd = "install" /\ tgt = "linux" THEN
        << Always("ConfirmCertPolicy"), Always("AwaitConfiguration"),
           Always("AwaitSetupInfo"), If("PushImages", AirgapOrConfigPush),
           Always("ValidateHostRequirements"), Always("SetupHost"),
           If("AwaitOtherHosts", MultiNode), Always("InstallStorage"),
           Always("InstallRegistry"), Always("PrepareDisasterRecovery"),
           Always("InstallAddOns"), Always("ValidateEnvironment"),
           Always("InstallApplication") >>
    ELSE IF cmd = "upgrade" THEN
        << Always("ValidateAirgapLicense"), Always("AwaitConfiguration"),
           Always("AwaitRegistryInfo"), If("PushImages", AirgapOrConfigPush),
           Always("ValidateEnvironment"), Always("UpgradeApplication") >>
    ELSE <<>>

Holds(step) == step.when
NamesOf(row) == [i \in 1..Len(row) |-> row[i].name]
\* the row with the steps whose condition is false removed
ExpectedSteps == NamesOf(SelectSeq(TableRow(command, target), Holds))

\* the run got past its gating preconditions
PassedGates == "AwaitConfiguration" \in Range(visited)

----------------------------------------------------------------------------
(* C1 *)

\* C1: in an install or upgrade run that is not a dry run, the steps visited
\* so far are always an initial part of the table row for (command, target)
\* with the false-conditioned steps removed, and a run that passed its gates
\* and has ended has visited exactly that row.
C1_TableOrder ==
    (command \in {"install", "upgrade"} /\ ~dry_run) =>
        /\ IsPrefix(visited, ExpectedSteps)
        /\ (Done /\ PassedGates => visited = ExpectedSteps)

\* a host install that skipped PushImages and waited for other hosts has ended
C1_Witness ==
    /\ command = "install" /\ target = "linux" /\ ~dry_run /\ Done
    /\ "PushImages" \notin Range(visited)
    /\ "AwaitOtherHosts" \in Range(visited)
    /\ visited[Len(visited)] = "InstallApplication"


----------------------------------------------------------------------------
(* C2 *)

DryRunOnCluster ==
    command \in {"install", "upgrade"} /\ target = "kubernetes" /\ dry_run

\* C2: a dry run of install or upgrade on the cluster target never visits a
\* provisioning step, every such run ends, and one that passed its gates has
\* by then written the manifest once, the package archive once and nothing
\* else.
C2_DryRunCluster ==
    /\ [](DryRunOnCluster =>
            /\ Range(visited) \cap RealSteps = {}
            /\ (Done /\ PassedGates =>
                    /\ Count(writes, "wordpress.yaml") = 1
                    /\ Count(writes, "wordpress.tgz") = 1
                    /\ Len(writes) = 2))
    /\ (DryRunOnCluster ~> Done)

\* a dry-run upgrade on the cluster has ended after writing its two files
C2_Witness ==
    /\ DryRunOnCluster /\ command = "upgrade" /\ Done /\ PassedGates
    /\ Len(writes) = 2

----------------------------------------------------------------------------
(* C3 *)

\* the password/confirmation pairs in which the two entries differ
MismatchedPairs ==
    {i \in DOMAIN prompts :
        /\ prompts[i][1] = "Set password"
        /\ prompts[i][2] # prompts[i + 1][2]}

\* C3: once the operator has entered three password/confirmation pairs that
\* differ, the install run has ended in RetryExhausted with no workflow step
\* executed and no file written.
C3_RetryExhausted ==
    (command = "install" /\ Cardinality(MismatchedPairs) >= 3) =>
        /\ Done
        /\ outcome = "RetryExhausted"
        /\ WorkflowSteps = <<>>
        /\ writes = <<>>

\* three mismatched pairs have been entered
C3_Witness ==
    /\ command = "install" /\ target = "kubernetes"
    /\ Cardinality(MismatchedPairs) = 3
    /\ Len(prompts) = 6

----------------------------------------------------------------------------
(* C4 *)

AirgapNoLicense ==
    /\ command = "upgrade"
    /\ airgap_bundle \notin {None, ""}
    /\ license_path \in {None, ""}

\* C4: an upgrade run given an airgap bundle and no license never executes a
\* workflow step and never writes a file, and after the license check it has
\* ended in ValidationError; this for either target and any dry_run and yes.
C4_AirgapNeedsLicense ==
    AirgapNoLicense =>
        /\ WorkflowSteps = <<>>
        /\ writes = <<>>
        /\ (visited # <<>> => Done /\ outcome = "ValidationError")

\* the license check has rejected a dry-run host upgrade run with --yes
C4_Witness ==
    /\ AirgapNoLicense /\ Done /\ visited = <<"ValidateAirgapLicense">>
    /\ target = "linux" /\ dry_run /\ yes

----------------------------------------------------------------------------
(* C5 *)

DeclinedSelfSigned == <<"continue with self-signed", "n">> \in Range(prompts)

\* C5: in a host install without both certificate files and without --yes,
\* once the operator has declined the self-signed-certificate prompt the run
\* has ended in UserAbort, and that prompt is all that happened: no password
\* prompt, no workflow step, no file.
C5_DeclinedCertificate ==
    (/\ command = "install" /\ target = "linux" /\ ~yes
     /\ (key_file = None \/ cert_file = None)
     /\ DeclinedSelfSigned) =>
        /\ Done
        /\ outcome = "UserAbort"
        /\ Len(prompts) = 1
        /\ WorkflowSteps = <<>>
        /\ writes = <<>>

\* the prompt was declined in a run given a key file but no certificate file
C5_Witness ==
    /\ command = "install" /\ DeclinedSelfSigned
    /\ key_file # None /\ cert_file = None /\ manager_password = None

----------------------------------------------------------------------------
(* C6 *)

\* C6: when support-bundle generation has returned, on whatever path, the
\* staging directory does not exist.
C6_StagingDirectoryRemoved ==
    (command = "support_bundle" /\ Done) => ~bundle_dir

----------------------------------------------------------------------------
(* C7 *)

\* the place of a release in the order on (major, minor, patch)
Field(r, i) == IF i <= Len(r) THEN r[i] ELSE 0
Ordinal(v) ==
    LET base == MaxField + 1
    IN  (Field(v.release, 1) * base + Field(v.release, 2)) * base
        + Field(v.release, 3)

UpdateSteps == {"DownloadNewVersion", "InstallUpdate"}
RequestedNotNewer ==
    /\ command = "update"
    /\ requested.form = "release"
    /\ Ordinal(requested) <= Ordinal(CURRENT_VERSION)
ConfirmedDowngrade == <<"downgrade?", "y">> \in Range(prompts)

\* C7: in an update run whose requested version is not above the current
\* one, an update step has executed only if --yes was given or the operator
\* confirmed the downgrade, and a run that ended without either ended in
\* DowngradeNotConfirmed with no update step; so does a request for 1.0.0
\* from 1.0.0.
C7_DowngradeGate ==
    RequestedNotNewer =>
        /\ (Range(visited) \cap UpdateSteps # {} => yes \/ ConfirmedDowngrade)
        /\ (Done /\ ~yes /\ ~ConfirmedDowngrade =>
                /\ outcome = "DowngradeNotConfirmed"
                /\ visited = <<>>)

\* 1.0.0 was requested from 1.0.0 without --yes and the run ended unconfirmed
C7_Witness ==
    /\ command = "update" /\ requested = Release(<<1, 0, 0>>) /\ ~yes
    /\ Done /\ ~ConfirmedDowngrade /\ Len(prompts) = 1

----------------------------------------------------------------------------
(* C8 *)

\* C8: in an install or upgrade run with dry_run set, on either target, no
\* provisioning step executes.
C8_DryRunEitherTarget ==
    (command \in {"install", "upgrade"} /\ dry_run) =>
        Range(visited) \cap RealSteps = {}

----------------------------------------------------------------------------
(* C9 *)

NoneRequested == command = "update" /\ requested.form \in {"none", "empty"}
DiscoveredNewer ==
    /\ latest_version.form = "release"
    /\ Ordinal(latest_version) > Ordinal(CURRENT_VERSION)

\* C9: in an update run with no requested version, an update step has
\* executed only if discovery gave a version above the current one, and
\* then the version updated to is the discovered one; the ended run has
\* executed both update steps if discovery gave a newer version and has
\* otherwise ended in NoUpdateAvailable, reported as already latest, with no
\* update step.
C9_Discovery ==
    NoneRequested =>
        /\ (Range(visited) \cap UpdateSteps # {} =>
                DiscoveredNewer /\ version = latest_version)
        /\ (Done /\ DiscoveredNewer =>
                visited = <<"DownloadNewVersion", "InstallUpdate">>)
        /\ (Done /\ ~DiscoveredNewer =>
                /\ outcome = "NoUpdateAvailable"
                /\ output = << <<"already running the latest version", "">> >>
                /\ visited = <<>>)

\* discovery answered the current version, written 1.0, and the run ended
C9_Witness ==
    /\ NoneRequested /\ Done /\ visited = <<>>
    /\ latest_version = Release(<<1, 0>>)

----------------------------------------------------------------------------
(* C10 *)

FailureOutcomes == {"ValidationError", "RetryExhausted", "UserAbort"}

\* C10: a run that ended in ValidationError, RetryExhausted or UserAbort has a
\* non-zero exit code, and a run that completed its workflow has exit code 0.
C10_ExitCodes ==
    Done =>
        /\ (outcome \in FailureOutcomes => exit_code # 0)
        /\ (outcome = "Completed" => exit_code = 0)


----------------------------------------------------------------------------
(* C11 *)

PasswordPrompts == {"Set password", "Confirm password"}
PromptedForPassword == \E i \in DOMAIN prompts : prompts[i][1] \in PasswordPrompts
\* a non-empty password is held that no prompt has asked for: the supplied one
HoldsSuppliedPassword ==
    /\ command = "install"
    /\ manager_password \notin {None, ""}
    /\ ~PromptedForPassword

\* C11: an install run that holds a supplied, non-empty manager password
\* keeps that value as its credential in every step and never presents the
\* password or the confirmation prompt; hence the first password prompt is
\* presented only in a run whose supplied password was absent or empty.
C11_SuppliedPassword ==
    [][HoldsSuppliedPassword =>
          /\ manager_password' = manager_password
          /\ HoldsSuppliedPassword']_vars

\* a run given a password has ended past its gates without a prompt
C11_Witness ==
    /\ HoldsSuppliedPassword /\ manager_password = "pw1"
    /\ Done /\ PassedGates /\ prompts = <<>>


----------------------------------------------------------------------------
(* C12 *)

\* the places in the prompt log where a password/confirmation pair starts
PairStarts == {i \in DOMAIN prompts : prompts[i][1] = "Set password"}
PairMatches(i) == prompts[i][2] = prompts[i + 1][2]
LastPair == CHOOSE i \in PairStarts : \A j \in PairStarts : j <= i
InPasswordLoop == command = "install" /\ pc = "install_67"
MatchedLastPair ==
    command = "install" /\ PairStarts # {} /\ PairMatches(LastPair)

PasswordLoopShape ==
    command = "install" =>
        /\ Cardinality(PairStarts) <= 3
        /\ (InPasswordLoop => Cardinality(PairStarts) < 3)
        /\ \A i \in PairStarts : i # LastPair => ~PairMatches(i)
        /\ (MatchedLastPair =>
                /\ manager_password = prompts[LastPair][2]
                /\ ~InPasswordLoop
                /\ outcome # "RetryExhausted")
        /\ (PairStarts # {} /\ ~PairMatches(LastPair) =>
                \/ InPasswordLoop
                \/ Done /\ outcome = "RetryExhausted"
                        /\ Cardinality(PairStarts) = 3)

\* C12: the credential loop asks for at most three password/confirmation
\* pairs and never for a fourth; every pair before the last one differed, so
\* it stops at the first equal pair; after an equal pair the credential is
\* the value entered in that pair and the loop is left for the workflow,
\* which then reaches its first step; after a differing pair the loop asks
\* again or, at the third, gives up; and the loop is always left.
C12_CredentialLoop ==
    /\ []PasswordLoopShape
    /\ (InPasswordLoop ~> ~InPasswordLoop)
    /\ (MatchedLastPair ~> PassedGates)

\* the third pair matched on pw2 after two pairs that started with pw1
C12_Witness ==
    /\ command = "install" /\ Cardinality(PairStarts) = 3
    /\ MatchedLastPair /\ manager_password = "pw2"
    /\ prompts[1][2] = "pw1" /\ prompts[3][2] = "pw1"
    /\ PassedGates


----------------------------------------------------------------------------
(* C13 *)

IsDockerLine(line) == line[1] \in {"load", "pull", "tag", "push"}
DockerLines == SelectSeq(output, IsDockerLine)
TagAndPush ==
    << <<"tag", "wordpress">>, <<"tag", "wordpress-runner">>,
       <<"tag", "wordpress-actions-runner">>,
       <<"push", "wordpress">>, <<"push", "wordpress-runner">>,
       <<"push", "wordpress-actions-runner">> >>
ExpectedDockerLines ==
    IF airgap_bundle \notin {None, ""}
    THEN << <<"load", airgap_bundle>> >> \o TagAndPush
    ELSE << <<"pull", "wordpress">>, <<"pull", "wordpress-runner">>,
            <<"pull", "wordpress-actions-runner">> >> \o TagAndPush

\* C13: once a dry run of install or upgrade has emitted its instructions,
\* the docker lines it printed are, in this order: one load of the bundle
\* when an airgap bundle is set and otherwise one pull for each of the three
\* images; then one tag for each image; then one push for each image.  The
\* list depends on the airgap setting only, not on the command, and no
\* docker line is printed by a run that has not emitted the instructions.
C13_ImagePushInstructions ==
    command \in {"install", "upgrade"} =>
        IF "EmitInstructions" \in Range(visited)
        THEN DockerLines = ExpectedDockerLines
        ELSE DockerLines = <<>>

\* a dry-run upgrade with an airgap bundle has printed its instructions
C13_Witness ==
    /\ command = "upgrade" /\ airgap_bundle = "bundle.airgap"
    /\ "EmitInstructions" \in Range(visited) /\ Len(DockerLines) = 7


----------------------------------------------------------------------------
(* C14 *)

\* the order on (major, minor, patch): decided by the first differing field
FieldsGreater(a, b) ==
    \E i \in 1..3 :
        /\ Field(a, i) > Field(b, i)
        /\ \A j \in 1..(i - 1) : Field(a, j) = Field(b, j)
Relation(a, b) ==
    IF FieldsGreater(a.release, b.release) THEN "Newer"
    ELSE IF FieldsGreater(b.release, a.release) THEN "Older"
    ELSE "Same"
SaidNotNewer == <<"is not newer than current version", "">> \in Range(output)

\* C14: the comparisons the update command makes are those of the numeric
\* order on (major, minor, patch): for the discovered version against every
\* version of the range, `>` holds exactly when the relation is Newer and
\* `<=` exactly when it is Same or Older; 1.1.0 against 1.0.0 is Newer and
\* 1.0.0 against 1.0.0 is Same; check_for_updates answers a version exactly
\* when it is Newer than the current one; and a requested version is
\* reported as not newer exactly when its relation to the current version
\* is Same or Older.
C14_VersionOrder ==
    command = "update" =>
        /\ latest_version.form = "release" =>
              /\ \A b \in Releases :
                    /\ VersionGreater(latest_version, b)
                          <=> Relation(latest_version, b) = "Newer"
                    /\ VersionLessEqual(latest_version, b)
                          <=> Relation(latest_version, b) \in {"Same", "Older"}
              /\ check_for_updates # NoVersion
                    <=> Relation(latest_version, CURRENT_VERSION) = "Newer"
        /\ Relation(Release(<<1, 1, 0>>), Release(<<1, 0, 0>>)) = "Newer"
        /\ VersionGreater(Release(<<1, 1, 0>>), Release(<<1, 0, 0>>))
        /\ Relation(Release(<<1, 0, 0>>), Release(<<1, 0, 0>>)) = "Same"
        /\ ~VersionGreater(Release(<<1, 0, 0>>), Release(<<1, 0, 0>>))
        /\ (requested.form = "release" /\ pc # "update_410" =>
                (SaidNotNewer <=>
                    Relation(requested, CURRENT_VERSION) \in {"Same", "Older"}))

\* 1.0 was requested from 1.0.0 and reported as not newer, in a run where
\* the version source answers 1.1.0
C14_Witness ==
    /\ command = "update" /\ Done
    /\ latest_version = Release(<<1, 1, 0>>)
    /\ requested = Release(<<1, 0>>) /\ SaidNotNewer


----------------------------------------------------------------------------
(* C15 *)

ConfirmationPrompts == {"continue with self-signed", "downgrade?",
                        "Are you sure?", "send this bundle to support?"}
AskedToConfirm ==
    \E i \in DOMAIN prompts : prompts[i][1] \in ConfirmationPrompts

\* C15: in a run with --yes no yes/no confirmation is ever presented and
\* the run never ends in UserAbort or DowngradeNotConfirmed: an install
\* leaves the certificate check for the password loop or the workflow, on
\* the host target without a certificate pair too, and an update to a
\* version not above the current one ends having executed both update steps.
C15_YesBypassesConfirmations ==
    yes =>
        /\ ~AskedToConfirm
        /\ outcome \notin {"UserAbort", "DowngradeNotConfirmed"}
        /\ (command = "install" /\ visited = <<"ConfirmCertPolicy">> =>
                pc \in {"install_67", "install_78"}
                \/ (Done /\ outcome = "RetryExhausted"))
        /\ (RequestedNotNewer /\ Done =>
                visited = <<"DownloadNewVersion", "InstallUpdate">>)

\* with --yes a host install without certificate files is past the gate
C15_Witness ==
    /\ yes /\ command = "install" /\ target = "linux"
    /\ key_file = None /\ cert_file = None
    /\ PassedGates /\ ~AskedToConfirm


----------------------------------------------------------------------------
(* C16 *)

ValidationSteps == {"ValidateEnvironment", "ValidateHostRequirements"}
\* the step PushImages follows: waiting for the registry or setup information
AwaitInfoStep ==
    IF command = "install" /\ target = "linux" THEN "AwaitSetupInfo"
    ELSE "AwaitRegistryInfo"
Validating == Range(visited) \cap ValidationSteps # {}

\* C16: in an install or upgrade run that is not a dry run, on either target,
\* PushImages has executed only if an airgap bundle is supplied or the
\* push_images option is true (true also when the configuration does not
\* set it), and by the first validation step it has executed if that
\* holds; it executes at most once, immediately after AwaitRegistryInfo
\* (AwaitSetupInfo for a host install) and with no validation step before it.
C16_PushImages ==
    (command \in {"install", "upgrade"} /\ ~dry_run) =>
        /\ ("PushImages" \in Range(visited) => AirgapOrConfigPush)
        /\ (Validating /\ AirgapOrConfigPush => "PushImages" \in Range(visited))
        /\ Count(visited, "PushImages") <= 1
        /\ \A i \in DOMAIN visited :
              visited[i] = "PushImages" =>
                  /\ i > 1
                  /\ visited[i - 1] = AwaitInfoStep
                  /\ \A j \in 1..i : visited[j] \notin ValidationSteps

\* a host upgrade whose configuration does not set push_images pushed images
C16_Witness ==
    /\ command = "upgrade" /\ target = "linux" /\ ~dry_run
    /\ airgap_bundle = None /\ "push_images" \notin DOMAIN config
    /\ Done /\ "PushImages" \in Range(visited)


----------------------------------------------------------------------------
(* C17 *)

HostInstallMultiNode == command = "install" /\ target = "linux" /\ MultiNode

\* C17: AwaitOtherHosts has executed only in an install on the host target
\* whose multi_node option is true (false when the configuration does not
\* set it), never in a cluster run or an upgrade; in such an install it has
\* executed by the time storage is installed; and it executes at most once,
\* directly after SetupHost and directly before InstallStorage.
C17_AwaitOtherHosts ==
    /\ ("AwaitOtherHosts" \in Range(visited) => HostInstallMultiNode)
    /\ (HostInstallMultiNode /\ "InstallStorage" \in Range(visited) =>
            "AwaitOtherHosts" \in Range(visited))
    /\ Count(visited, "AwaitOtherHosts") <= 1
    /\ \A i \in DOMAIN visited :
          visited[i] = "AwaitOtherHosts" =>
              /\ i > 1
              /\ visited[i - 1] = "SetupHost"
              /\ (i < Len(visited) => visited[i + 1] = "InstallStorage")

\* a multi-node host install waited for the other hosts, then installed storage
C17_Witness ==
    /\ HostInstallMultiNode /\ config["multi_node"]
    /\ "AwaitOtherHosts" \in Range(visited)
    /\ "InstallStorage" \in Range(visited)


----------------------------------------------------------------------------
(* C18 *)

SuccessMessage ==
    IF command = "install" THEN "installed successfully"
    ELSE "upgraded successfully"
SummaryAt ==
    {i \in DOMAIN output :
        output[i][1] \in {"installed successfully", "upgraded successfully"}}
FinalStepDone ==
    /\ visited # <<>>
    /\ visited[Len(visited)] \in {"InstallApplication", "UpgradeApplication"}

\* C18: an install or upgrade run prints its closing summary at most once;
\* when it is printed the final InstallApplication/UpgradeApplication step
\* has been executed, the summary is the command's success message followed
\* by the access location, these are the last lines printed and the run has
\* ended; a run that has ended after its final step has printed it; and a
\* run that ended at a gate, at the password loop or in the dry-run branch
\* has not.
C18_ClosingSummary ==
    command \in {"install", "upgrade"} =>
        /\ Cardinality(SummaryAt) <= 1
        /\ \A i \in SummaryAt :
              /\ FinalStepDone
              /\ Done
              /\ output[i][1] = SuccessMessage
              /\ i = Len(output) - 1
              /\ output[Len(output)][1] = "Admin Console location"
        /\ (Done /\ FinalStepDone => SummaryAt # {})
        /\ (Done /\ (~PassedGates \/ "EmitInstructions" \in Range(visited)) =>
                SummaryAt = {})

\* a cluster upgrade has ended with its summary
C18_Witness ==
    /\ command = "upgrade" /\ target = "kubernetes" /\ Done
    /\ SummaryAt # {} /\ FinalStepDone


----------------------------------------------------------------------------
(* C19 *)

\* C19: in every state at most one progress indicator is running, so that a
\* step is started only when the previous one has been stopped, and when a
\* command has returned, on whatever path, none is left running.
C19_NoStepLeftRunning ==
    /\ spinners <= 1
    /\ (Done => spinners = 0)

----------------------------------------------------------------------------
(* C20 *)

AnsweredUninstall(typed) == <<"Are you sure?", typed>> \in Range(prompts)

\* C20: in an uninstall run the uninstall step has executed only if the
\* operator answered the confirmation with yes; once the operator has
\* answered no, or pressed Enter for the default, the run has ended as a
\* cancellation with no step executed; the confirmation is the only prompt.
C20_UninstallConfirmed ==
    command = "uninstall" =>
        /\ (visited # <<>> => AnsweredUninstall("y"))
        /\ (AnsweredUninstall("n") \/ AnsweredUninstall("") =>
                /\ Done
                /\ outcome = "UserAbort"
                /\ visited = <<>>
                /\ output = << <<"Uninstall cancelled", "">> >>)
        /\ Len(prompts) <= 1
        /\ (pc # "uninstall_290" => Len(prompts) = 1)

\* the operator pressed Enter at the confirmation and the run was cancelled
C20_Witness ==
    /\ command = "uninstall" /\ AnsweredUninstall("") /\ Done

----------------------------------------------------------------------------
(* C21 *)

\* both files of the certificate pair were given on the command line
CertPairSupplied == key_file # None /\ cert_file # None
\* positions in the prompt log of the self-signed-certificate confirmation
CertPrompts ==
    {i \in DOMAIN prompts : prompts[i][1] = "continue with self-signed"}
\* the run has ended as a cancellation before the password loop or any step
AbortedAtCertGate ==
    /\ Done /\ outcome = "UserAbort" /\ visited = <<"ConfirmCertPolicy">>

\* C21: in an install run that is past the certificate check, the
\* self-signed-certificate confirmation has been presented if and only if
\* the target is the host, the key file and the certificate file were not
\* both supplied, and --yes is not set; it is never presented on the cluster
\* target or before the check; it is presented at most once and as the first
\* prompt, so before any password prompt; and a run that ended in UserAbort
\* at the certificate check has not prompted for a password.
C21_CertPromptCondition ==
    command = "install" =>
        /\ (pc = "install_56" => prompts = <<>>)
        /\ (pc # "install_56" =>
                (CertPrompts # {} <=>
                    /\ target = "linux" /\ ~CertPairSupplied /\ ~yes))
        /\ (target = "kubernetes" => CertPrompts = {})
        /\ CertPrompts \subseteq {1}
        /\ (AbortedAtCertGate => /\ CertPrompts = {1}
                                 /\ ~PromptedForPassword)

\* given only a certificate file, the operator accepted the self-signed
\* certificate and was then asked for the password
C21_Witness ==
    /\ command = "install" /\ key_file = None /\ cert_file # None
    /\ CertPrompts = {1} /\ PromptedForPassword
    /\ prompts[1][2] = "y" /\ prompts[2][1] = "Set password"

====
